---------------------------- MODULE Spec2Model ----------------------------
(***************************************************************************)
(* A model of data_to_web: the table projection (TableField,              *)
(* TableFieldArray, TPL_TABLE) and the page composer (CompositePage).      *)
(*                                                                         *)
(* Python values are represented as follows.                               *)
(*   - a str that the code inspects character by character (a name, an     *)
(*     output file name) is a sequence of one-character strings;           *)
(*   - an optional value is a sequence of length 0 (None) or 1;            *)
(*   - a dataset cell is a record [k, t]: a float (t tenths), None, or the *)
(*     non-numeric str 'abc';                                              *)
(*   - the outcome of a call is a record [ok, v, err]: a returned value or *)
(*     the name of the exception raised.                                   *)
(***************************************************************************)
EXTENDS Integers, Sequences, FiniteSets, TLC

VARIABLES
    \* TableFieldArray
    _table_fields,   \* self._table_fields
    _data,           \* self._data: None or the rows of the DataFrame
    _table_dict,     \* self._table_dict: cache, None or the structure
    _table_html,     \* self._table_html: cache, None or the rendering
    _df_pretty,      \* self._df_pretty: cache, None or the renamed DataFrame
    readSince,       \* history: table_dict was read successfully since the
                     \* last reassignment of data / table_fields
    \* CompositePage
    title,           \* self.title: None or the page title
    _tables,         \* self._tables
    _bokeh_figs,     \* self._bokeh_figs
    _plt_figs,       \* self._plt_figs
    _index,          \* self._index
    created,         \* history: the ix of every PageElement constructed by
                     \* an add_* call, in order of construction
    fs,              \* the files of the working directory: a set of
                     \* [path, content], one per existing path
    ret              \* the last operation and what it returned or raised

tableVars == <<_table_fields, _data, _table_dict, _table_html, _df_pretty,
               readSince>>

pageVars == <<title, _tables, _bokeh_figs, _plt_figs, _index, created, fs>>

vars == <<tableVars, pageVars, ret>>

-----------------------------------------------------------------------------
(* Bounds of the model.                                                    *)

MaxFields == 2
MaxRows == 2
MaxIndex == 3
MaxPublished == 2
MaxNameLen == 2

-----------------------------------------------------------------------------
(* Python values.                                                          *)

None == <<>>
Some(v) == <<v>>

PyNone == [k |-> "None", t |-> 0]
PyFloat(t) == [k |-> "float", t |-> t]
PyStr == [k |-> "str", t |-> 0]

Ok(v) == [ok |-> TRUE, v |-> v, err |-> ""]
Raise(e) == [ok |-> FALSE, v |-> None, err |-> e]

\* A formatted cell: the Python type of the value and its text.
StrVal(s) == [ty |-> "str", s |-> s]
IntVal(s) == [ty |-> "int", s |-> s]

Digit(d) ==
    CASE d = 0 -> "0" [] d = 1 -> "1" [] d = 2 -> "2" [] d = 3 -> "3"
      [] d = 4 -> "4" [] d = 5 -> "5" [] d = 6 -> "6" [] d = 7 -> "7"
      [] d = 8 -> "8" [] d = 9 -> "9"

RECURSIVE NatStr(_)
NatStr(n) == IF n < 10 THEN Digit(n) ELSE NatStr(n \div 10) \o Digit(n % 10)

RECURSIVE Zeros(_)
Zeros(n) == IF n = 0 THEN "" ELSE "0" \o Zeros(n - 1)

\* str(x) of a dataset cell: 1.0 -> '1.0', None -> 'None', 'abc' -> 'abc'.
PyStrOf(val) ==
    CASE val.k = "float" -> NatStr(val.t \div 10) \o "." \o Digit(val.t % 10)
      [] val.k = "None" -> "None"
      [] val.k = "str" -> "abc"

\* float(x): the value, or the exception float() raises.
PyFloatOf(val) ==
    CASE val.k = "float" -> Ok(val.t)
      [] val.k = "None" -> Raise("TypeError")
      [] val.k = "str" -> Raise("ValueError")

-----------------------------------------------------------------------------
(* TableField and its formatters.                                          *)

NoFcn == [type |-> "None", field |-> <<>>, ntz |-> FALSE, precision |-> 0]

TableField(name, is_data, visible, fcn, header, attributes_fcn) ==
    Ok([name |-> name, is_data |-> is_data, visible |-> visible, fcn |-> fcn,
        _header |-> header, _attributes_fcn |-> attributes_fcn])

header(f) == IF f._header = None THEN f.name ELSE f._header[1]

format_int(val, none_to_zero) ==
    IF val.k = "None"
    THEN IF none_to_zero THEN Ok(IntVal("0")) ELSE Ok(StrVal("None"))
    ELSE LET x == PyFloatOf(val)
         IN  IF x.ok THEN Ok(StrVal(NatStr(x.v \div 10))) ELSE x

format_euro(val) ==
    LET x == PyFloatOf(val)
    IN  IF x.ok
        THEN Ok(StrVal(NatStr(x.v \div 10) \o "." \o Digit(x.v % 10) \o "0 €"))
        ELSE x

\* (float(val) * 100.) printed with `precision` decimals: a value of t tenths
\* is the whole number 10 t, so every decimal printed is 0.
format_percent(val, precision) ==
    LET x == PyFloatOf(val)
    IN  IF x.ok
        THEN Ok(StrVal(NatStr(x.v * 10)
                       \o (IF precision = 0 THEN "" ELSE "." \o Zeros(precision))
                       \o " %"))
        ELSE x

\* The closure format_factory returns; None for an unknown format_type.
format_factory(format_type, field_name, ntz, precision) ==
    IF format_type \in {"int", "euro", "percent"}
    THEN [type |-> format_type, field |-> field_name, ntz |-> ntz,
          precision |-> precision]
    ELSE NoFcn

\* getattr(row, name) on a row tuple of itertuples().
GetAttr(row, name) ==
    IF name \in DOMAIN row THEN Ok(row[name]) ELSE Raise("AttributeError")

function(f) ==
    IF f.fcn = NoFcn
    THEN [type |-> "default", field |-> f.name, ntz |-> FALSE, precision |-> 0]
    ELSE f.fcn

\* Calling a value function on a row.
CallFcn(fn, row) ==
    LET a == GetAttr(row, fn.field)
    IN  IF ~a.ok THEN a
        ELSE CASE fn.type = "default" -> Ok(StrVal(PyStrOf(a.v)))
               [] fn.type = "int" -> format_int(a.v, fn.ntz)
               [] fn.type = "euro" -> format_euro(a.v)
               [] fn.type = "percent" -> format_percent(a.v, fn.precision)

NoAttrFcn == [type |-> "None", field |-> <<>>]

attributes_fcn(f) ==
    IF f._attributes_fcn = NoAttrFcn
    THEN [type |-> "empty", field |-> <<>>]
    ELSE f._attributes_fcn

\* Calling an attribute function on a row: a dict, as a set of <<key, value>>.
\*   "empty":  lambda x: {}
\*   "const":  lambda x: {'class': 'num'}
\*   "title":  lambda x: {'title': str(getattr(x, field))}
CallAttrFcn(fn, row) ==
    CASE fn.type = "empty" -> Ok({})
      [] fn.type = "const" -> Ok({<<"class", "num">>})
      [] fn.type = "title" ->
            LET a == GetAttr(row, fn.field)
            IN  IF a.ok THEN Ok({<<"title", PyStrOf(a.v)>>}) ELSE a

-----------------------------------------------------------------------------
(* TableFieldArray: the projection.                                        *)

_filter_data(fields) == SelectSeq(fields, LAMBDA x : x.is_data)

\* Mutant: the visibility filter is forgotten.
_filter_visible_all(fields) == fields

_filter_visible(fields) == SelectSeq(fields, LAMBDA x : x.visible)

get_data_fields(fields) ==
    LET fd == _filter_data(fields) IN [i \in 1..Len(fd) |-> fd[i].name]

get_data_header(fields) ==
    LET fd == _filter_data(fields) IN [i \in 1..Len(fd) |-> header(fd[i])]

get_output_header(fields) ==
    LET fv == _filter_visible(fields) IN [i \in 1..Len(fv) |-> header(fv[i])]

get_output_functions(fields) ==
    LET fv == _filter_visible(fields) IN [i \in 1..Len(fv) |-> function(fv[i])]

get_output_tag_attribute_functions(fields) ==
    LET fv == _filter_visible(fields)
    IN  [i \in 1..Len(fv) |-> attributes_fcn(fv[i])]

\* zip of the two lists.
get_column_formatters(fields) ==
    LET fcns == get_output_functions(fields)
        attr_fcns == get_output_tag_attribute_functions(fields)
        n == IF Len(fcns) < Len(attr_fcns) THEN Len(fcns) ELSE Len(attr_fcns)
    IN  [i \in 1..n |-> <<fcns[i], attr_fcns[i]>>]

\* The columns of every DataFrame of the model.
DataColumns == {<<"x">>, <<"y">>}

\* self.data[data_cols]: KeyError for a column the DataFrame lacks, TypeError
\* when data is None; else the rows restricted to the selected columns.
SelectColumns(data, data_cols) ==
    IF data = None THEN Raise("TypeError")
    ELSE IF \E i \in 1..Len(data_cols) : data_cols[i] \notin DataColumns
    THEN Raise("KeyError")
    ELSE LET cols == {data_cols[i] : i \in 1..Len(data_cols)}
         IN  Ok([r \in 1..Len(data[1]) |-> [c \in cols |-> data[1][r][c]]])

iter_data_rows(fields, data) ==
    IF data = None THEN Ok(<<>>)
    ELSE SelectColumns(data, get_data_fields(fields))

\* The loops of iter_formatted_rows: over the formatters of a row from column
\* j (FormatRowFrom, with FormatCell the body of the loop given what the two
\* functions returned), and over the rows from row r (FormatRowsFrom, with
\* YieldRow the yield of the row's pair p).  The outer loop gives the pairs
\* yielded and the error that ended the iteration ("" when it ran to the end).
RECURSIVE FormatRowFrom(_, _, _, _, _)
RECURSIVE FormatCell(_, _, _, _, _, _, _)
FormatCell(formatters, row, j, vals, attrs, v, a) ==
    IF ~v.ok THEN v
    ELSE IF ~a.ok THEN a
    ELSE FormatRowFrom(formatters, row, j + 1,
                       Append(vals, v.v), Append(attrs, a.v))

FormatRowFrom(formatters, row, j, vals, attrs) ==
    IF j > Len(formatters) THEN Ok(<<vals, attrs>>)
    ELSE FormatCell(formatters, row, j, vals, attrs,
                    CallFcn(formatters[j][1], row),
                    CallAttrFcn(formatters[j][2], row))

RECURSIVE FormatRowsFrom(_, _, _, _)
RECURSIVE YieldRow(_, _, _, _, _)
\* Mutant: a row whose formatting raised is skipped and the iteration goes on.
YieldRowSkip(formatters, rows, r, yielded, p) ==
    IF ~p.ok THEN FormatRowsFrom(formatters, rows, r + 1, yielded)
    ELSE FormatRowsFrom(formatters, rows, r + 1, Append(yielded, p.v))

YieldRow(formatters, rows, r, yielded, p) ==
    IF ~p.ok THEN [yielded |-> yielded, err |-> p.err]
    ELSE FormatRowsFrom(formatters, rows, r + 1, Append(yielded, p.v))

FormatRowsFrom(formatters, rows, r, yielded) ==
    IF r > Len(rows) THEN [yielded |-> yielded, err |-> ""]
    ELSE YieldRow(formatters, rows, r, yielded,
                  FormatRowFrom(formatters, rows[r], 1, <<>>, <<>>))

\* The generator run on the formatters and on what iter_data_rows gave.
FormatRows(formatters, rows) ==
    IF ~rows.ok THEN [yielded |-> <<>>, err |-> rows.err]
    ELSE FormatRowsFrom(formatters, rows.v, 1, <<>>)

\* The generator, run until it is exhausted or raises.
iter_formatted_rows(fields, data) ==
    FormatRows(get_column_formatters(fields), iter_data_rows(fields, data))

\* The dict display of table_dict from the header and the generator's run.
TableDictOf(thead_v, it) ==
    IF it.err # "" THEN Raise(it.err)
    ELSE Ok([thead |-> [v |-> thead_v],
             tbody |-> [i \in 1..Len(it.yielded) |->
                           [v |-> it.yielded[i][1], a |-> it.yielded[i][2]]]])

\* The structure table_dict builds: built whole, or the exception.
BuildTableDict(fields, data) ==
    TableDictOf(get_output_header(fields), iter_formatted_rows(fields, data))

\* df_pretty's rename of the selected columns `sel`: a header per data column
\* (rename[data_field] is the header of the last descriptor of that name).
Renamed(data_fields, data_headers, sel) ==
    IF ~sel.ok THEN sel
    ELSE Ok([columns |-> [i \in 1..Len(data_fields) |->
                            data_headers[CHOOSE n \in 1..Len(data_fields) :
                                /\ data_fields[n] = data_fields[i]
                                /\ \A k \in (n + 1)..Len(data_fields) :
                                      data_fields[k] # data_fields[i]]],
             rows |-> [r \in 1..Len(sel.v) |->
                         [i \in 1..Len(data_fields) |-> sel.v[r][data_fields[i]]]]])

\* The DataFrame df_pretty builds: the data columns renamed to the headers.
BuildDfPretty(fields, data) ==
    Renamed(get_data_fields(fields), get_data_header(fields),
            SelectColumns(data, get_data_fields(fields)))

-----------------------------------------------------------------------------
(* templates.TPL_TABLE.                                                    *)

\* `row.a.items()`: row.a is the list of attribute dicts of the row; jinja2
\* resolves .items on a list to Undefined, and calling Undefined raises.
JinjaRowAttrItems(a) == Raise("UndefinedError")

\* The <td> cells of a row given the items of row.a.
RowCells(v, items) ==
    IF ~items.ok THEN items
    ELSE Ok([j \in 1..Len(v) |-> [attrs |-> items.v, text |-> v[j].s]])

\* One <tr>: a <td> per value of row.v, each with the items of row.a.
RenderRow(row) ==
    IF Len(row.v) = 0 THEN Ok(<<>>) ELSE RowCells(row.v, JinjaRowAttrItems(row.a))

\* The table from its rendered rows: the <th> texts when there is a <thead>,
\* the rows of <td> cells when there is a <tbody>; the first row that raised
\* ends the rendering.
TableOf(head, rows) ==
    IF \E i \in 1..Len(rows) : ~rows[i].ok
    THEN rows[CHOOSE i \in 1..Len(rows) :
                /\ ~rows[i].ok
                /\ \A k \in 1..(i - 1) : rows[k].ok]
    ELSE Ok([thead |-> IF Len(head) > 0 THEN Some(head) ELSE None,
             tbody |-> IF Len(rows) > 0
                       THEN Some([i \in 1..Len(rows) |-> rows[i].v])
                       ELSE None])

TPL_TABLE_render(head, body) ==
    TableOf(head, [i \in 1..Len(body) |-> RenderRow(body[i])])

-----------------------------------------------------------------------------
(* TableFieldArray: the object and its operations.                         *)

\* What an operation reports: its name, its arguments, and the value it
\* returned or the exception it raised.
Result(op, args, out) ==
    [op |-> op, args |-> args, ok |-> out.ok, val |-> out.v, err |-> out.err]

\* The descriptors and the rows the inputs are drawn from.
FieldX == TableField(<<"x">>, TRUE, TRUE, NoFcn, None, NoAttrFcn).v
FieldHidden ==
    TableField(<<"n">>, FALSE, FALSE, NoFcn, Some(<<"N">>), NoAttrFcn).v
FieldYInt ==
    TableField(<<"y">>, TRUE, TRUE, format_factory("int", <<"y">>, FALSE, 0),
               Some(<<"T">>), [type |-> "title", field |-> <<"x">>]).v

FieldPool == {FieldX, FieldHidden, FieldYInt}

RowPool ==
    { [c \in DataColumns |-> IF c = <<"x">> THEN PyFloat(10) ELSE PyFloat(25)],
      [c \in DataColumns |-> IF c = <<"x">> THEN PyNone ELSE PyStr] }

SeqsUpTo(S, n) == UNION {[1..k -> S] : k \in 0..n}

FieldLists == SeqsUpTo(FieldPool, MaxFields)

DataFrames == {None} \cup {Some(rows) : rows \in SeqsUpTo(RowPool, MaxRows)}

\* No page is under construction.
PageIdle ==
    /\ title = None
    /\ _tables = <<>>
    /\ _bokeh_figs = <<>>
    /\ _plt_figs = <<>>
    /\ _index = 0
    /\ created = <<>>
    /\ fs = {}

\* TableFieldArray(table_fields, data).
TableInit ==
    /\ _table_fields \in FieldLists
    /\ _data \in DataFrames
    /\ _table_dict = None
    /\ _table_html = None
    /\ _df_pretty = None
    /\ readSince = FALSE

\* The table_dict property on the given cache: what it returns or raises,
\* the cache afterwards, and whether the structure was computed.
Computed(built) ==
    [out |-> built, cache |-> IF built.ok THEN Some(built.v) ELSE None,
     recomputed |-> TRUE]

table_dict(cache, fields, data) ==
    IF cache = None
    THEN Computed(BuildTableDict(fields, data))
    ELSE [out |-> Ok(cache[1]), cache |-> cache, recomputed |-> FALSE]

\* The table_html property: table_dict is read (twice, the second time from
\* its cache) and rendered, unless a rendering is cached.
Rendered(d, r) ==
    [out |-> r, html_cache |-> IF r.ok THEN Some(r.v) ELSE None,
     dict_cache |-> d.cache]

RenderDict(d) ==
    IF ~d.out.ok
    THEN [out |-> d.out, html_cache |-> None, dict_cache |-> d.cache]
    ELSE Rendered(d, TPL_TABLE_render(d.out.v.thead.v, d.out.v.tbody))

table_html(html_cache, dict_cache, fields, data) ==
    IF html_cache = None
    THEN RenderDict(table_dict(dict_cache, fields, data))
    ELSE [out |-> Ok(html_cache[1]), html_cache |-> html_cache,
          dict_cache |-> dict_cache]

\* Mutant: the setters leave the caches as they are.
_reset_properties_none == UNCHANGED <<_table_dict, _df_pretty>>

_reset_properties ==
    /\ _table_dict' = None
    /\ _df_pretty' = None

SetTableFields(val) ==
    /\ _reset_properties
    /\ _table_fields' = val
    /\ readSince' = FALSE
    /\ ret' = Result("table_fields.setter", <<>>, Ok(None))
    /\ UNCHANGED <<_data, _table_html, pageVars>>

SetData(val) ==
    /\ _reset_properties
    /\ _data' = val
    /\ readSince' = FALSE
    /\ ret' = Result("data.setter", <<>>, Ok(None))
    /\ UNCHANGED <<_table_fields, _table_html, pageVars>>

ReadTableDictAs(d) ==
    /\ _table_dict' = d.cache
    /\ readSince' = (readSince \/ d.out.ok)
    /\ ret' = Result("table_dict",
                     [recomputed |-> d.recomputed, repeat |-> readSince], d.out)
    /\ UNCHANGED <<_table_fields, _data, _table_html, _df_pretty, pageVars>>

ReadTableDict == ReadTableDictAs(table_dict(_table_dict, _table_fields, _data))

ReadTableHtmlAs(h) ==
    /\ _table_html' = h.html_cache
    /\ _table_dict' = h.dict_cache
    /\ ret' = Result("table_html", [cached |-> _table_html # None], h.out)
    /\ UNCHANGED <<_table_fields, _data, _df_pretty, readSince, pageVars>>

ReadTableHtml ==
    ReadTableHtmlAs(table_html(_table_html, _table_dict, _table_fields, _data))

ReadDfPrettyAs(out) ==
    /\ _df_pretty' = IF out.ok THEN Some(out.v) ELSE None
    /\ ret' = Result("df_pretty", <<>>, out)
    /\ UNCHANGED <<_table_fields, _data, _table_dict, _table_html, readSince,
                   pageVars>>

ReadDfPretty ==
    ReadDfPrettyAs(IF _df_pretty = None
                   THEN BuildDfPretty(_table_fields, _data)
                   ELSE Ok(_df_pretty[1]))

GetOutputHeader ==
    /\ ret' = Result("get_output_header", <<>>,
                     Ok(get_output_header(_table_fields)))
    /\ UNCHANGED <<tableVars, pageVars>>

\* list(iter_formatted_rows()): the pairs yielded, and the error if it raised.
IterFormattedRowsAs(it) ==
    /\ ret' = [op |-> "iter_formatted_rows", args |-> <<>>,
               ok |-> (it.err = ""), val |-> it.yielded, err |-> it.err]
    /\ UNCHANGED <<tableVars, pageVars>>

IterFormattedRows ==
    IterFormattedRowsAs(iter_formatted_rows(_table_fields, _data))

InitRet == Result("__init__", <<>>, Ok(None))

InitTable ==
    /\ TableInit
    /\ PageIdle
    /\ ret = InitRet

NextTable ==
    \/ \E val \in FieldLists : SetTableFields(val)
    \/ \E val \in DataFrames : SetData(val)
    \/ ReadTableDict
    \/ ReadTableHtml
    \/ ReadDfPretty
    \/ GetOutputHeader
    \/ IterFormattedRows

SpecTable == InitTable /\ [][NextTable]_vars

-----------------------------------------------------------------------------
(* Names: the characters the two regular expressions keep.                 *)

AsciiDigits == {"0", "1", "2", "3", "4", "5", "6", "7", "8", "9"}

AsciiUpper ==
    {"A", "B", "C", "D", "E", "F", "G", "H", "I", "J", "K", "L", "M",
     "N", "O", "P", "Q", "R", "S", "T", "U", "V", "W", "X", "Y", "Z"}

AsciiLower ==
    {"a", "b", "c", "d", "e", "f", "g", "h", "i", "j", "k", "l", "m",
     "n", "o", "p", "q", "r", "s", "t", "u", "v", "w", "x", "y", "z"}

\* [0-9A-Za-z_]
IsNameChar(c) == c \in AsciiDigits \cup AsciiUpper \cup AsciiLower \cup {"_"}

\* [0-9A-Za-z\-_.]
IsFileNameChar(c) ==
    c \in AsciiDigits \cup AsciiUpper \cup AsciiLower \cup {"-", "_", "."}

\* re.sub(r'[^0-9A-Za-z_]+', '', name): the characters of the class, in order.
ReSubNameChars(name) == SelectSeq(name, IsNameChar)

\* re.sub(r'[^0-9A-Za-z\-_.]+', '', name)
ReSubFileNameChars(name) == SelectSeq(name, IsFileNameChar)

\* The characters names are made of in the model.
Chars == {"a", "Z", "7", "_", "-", ".", " ", "\t", "!"}

Names == SeqsUpTo(Chars, MaxNameLen)

-----------------------------------------------------------------------------
(* CompositePage.PageElement.                                              *)

NoObject == [kind |-> "None", valid |-> FALSE]

PageElement(index, etitle, caption, plot_object, name, format_fcn) ==
    IF /\ name # None
       /\ Len(name[1]) # Len(ReSubNameChars(name[1]))
    THEN Raise("ValueError")
    ELSE Ok([ix |-> index, title |-> etitle, caption |-> caption,
             plot_object |-> plot_object, name |-> name, _html |-> None,
             format_fcn |-> format_fcn])

\* PageElement.html (getter): TPL_H2_CAPTION_OBJECT; {{object}} prints None
\* as 'None'.
ElementHtml(e) ==
    [title |-> e.title, caption |-> e.caption,
     object |-> IF e._html = None THEN "None" ELSE e._html[1]]

\* PageElement.html (setter).
SetHtml(e, val) == [e EXCEPT !._html = Some(val)]

-----------------------------------------------------------------------------
(* CompositePage.                                                          *)

\* The value the index property returns; reading it stores it in _index.
index == _index + 1

\* df_to_html on a DataFrame, on a list (which has copy() but is no
\* DataFrame) or on None.
df_to_html(df, int_convert, non_scientific) ==
    IF df = "DataFrame" THEN Ok("<table df>")
    ELSE IF int_convert THEN Raise("AssertionError")
    ELSE Raise("AttributeError")

\* plt.savefig with the given keyword arguments, wrapped as an <img>.
plt_to_html(axes, kwargs) ==
    IF kwargs = "bad" THEN Raise("TypeError") ELSE Ok("<div><img png></div>")

\* Stable insertion of e into a list sorted by ix.
RECURSIVE InsertByIx(_, _)
InsertByIx(e, sorted) ==
    IF sorted = <<>> THEN <<e>>
    ELSE IF sorted[Len(sorted)].ix <= e.ix THEN Append(sorted, e)
    ELSE Append(InsertByIx(e, SubSeq(sorted, 1, Len(sorted) - 1)),
                sorted[Len(sorted)])

\* sorted(elements, key=lambda x: x.ix)
RECURSIVE SortedByIx(_)
SortedByIx(elements) ==
    IF elements = <<>> THEN <<>>
    ELSE InsertByIx(elements[Len(elements)],
                    SortedByIx(SubSeq(elements, 1, Len(elements) - 1)))

\* Mutant: the buckets are concatenated and the sort is forgotten.
pagecontent_unsorted(tables, bokeh_figs, plt_figs) ==
    tables \o bokeh_figs \o plt_figs

pagecontent(tables, bokeh_figs, plt_figs) ==
    SortedByIx(tables \o bokeh_figs \o plt_figs)

\* bokeh's components(): raises unless every object is a bokeh model.
components(objs) ==
    IF \E i \in 1..Len(objs) : ~objs[i].valid
    THEN Raise("ValueError")
    ELSE Ok([script |-> "<script bokeh>",
             divs |-> [i \in 1..Len(objs) |-> "<div bokeh>"]])

\* _process_bokeh: the header elements, and the figures with their html set.
ProcessedBokeh(bokeh_figs, c) ==
    IF ~c.ok THEN c
    ELSE Ok([header_elements |-> <<"<script js>", "<link css>", c.v.script>>,
             bokeh_figs |-> [i \in 1..Len(bokeh_figs) |->
                               SetHtml(bokeh_figs[i], c.v.divs[i])]])

_process_bokeh(bokeh_figs) ==
    ProcessedBokeh(bokeh_figs,
                   components([i \in 1..Len(bokeh_figs) |->
                                  bokeh_figs[i].plot_object]))

\* The page rendered from the header elements and the elements in order.
PageOf(ptitle, header_elements, content) ==
    [title |-> ptitle, header_elements |-> header_elements,
     h1 |-> ptitle, caption |-> None,
     body |-> [i \in 1..Len(content) |-> ElementHtml(content[i])]]

\* The html property given what _process_bokeh did (b): the page or the
\* exception, and the bokeh figures afterwards.
HtmlWith(ptitle, tables, bokeh_figs, plt_figs, b) ==
    IF ~b.ok
    THEN [out |-> b, bokeh_figs |-> bokeh_figs]
    ELSE [out |-> Ok(PageOf(ptitle, b.v.header_elements,
                            pagecontent(tables, b.v.bokeh_figs, plt_figs))),
          bokeh_figs |-> b.v.bokeh_figs]

html(ptitle, tables, bokeh_figs, plt_figs) ==
    HtmlWith(ptitle, tables, bokeh_figs, plt_figs,
             IF Len(bokeh_figs) > 0
             THEN _process_bokeh(bokeh_figs)
             ELSE Ok([header_elements |-> <<>>, bokeh_figs |-> bokeh_figs]))

\* name.replace(' ', '_'), then the characters outside the class deleted.
extract_name(name) ==
    ReSubFileNameChars(
        [i \in 1..Len(name) |-> IF name[i] = " " THEN "_" ELSE name[i]])

\* os.path.abspath(name + '.html') in the working directory.
AbsPath(name) == <<"/cwd/">> \o name \o <<".html">>

Exists(files, path) == \E f \in files : f.path = path

Content(files, path) == (CHOOSE f \in files : f.path = path).content

\* The files after `content` was written to `path` opened with mode 'w'.
Written(files, path, content) ==
    {f \in files : f.path # path} \cup {[path |-> path, content |-> content]}

-----------------------------------------------------------------------------
(* CompositePage: the operations.                                          *)

\* `name or self.title`
NameOrTitle(name, ptitle) ==
    IF name = None \/ name[1] = <<>> THEN ptitle ELSE name

\* publish, once the file is open for writing, given what html did (h): the
\* page is written, or the exception leaves the opened file empty.
PublishWrite(path, files, h) ==
    IF h.out.ok
    THEN [out |-> Ok(path), fs |-> Written(files, path, Some(h.out.v)),
          bokeh_figs |-> h.bokeh_figs, existed |-> Exists(files, path)]
    ELSE [out |-> h.out, fs |-> Written(files, path, None),
          bokeh_figs |-> h.bokeh_figs, existed |-> Exists(files, path)]

\* Mutant: the file is written whether or not it exists.
PublishNamedAlways(n, overwrite, ptitle, tables, bokeh_figs, plt_figs, files) ==
    IF n = None
    THEN [out |-> Raise("AttributeError"), fs |-> files,
          bokeh_figs |-> bokeh_figs, existed |-> FALSE]
    ELSE IF Len(extract_name(n[1])) = 0
    THEN [out |-> Raise("ValueError"), fs |-> files,
          bokeh_figs |-> bokeh_figs, existed |-> FALSE]
    ELSE PublishWrite(AbsPath(extract_name(n[1])), files,
                      html(ptitle, tables, bokeh_figs, plt_figs))

\* publish from the name chosen (n): what it returns or raises, the files and
\* the bokeh figures afterwards, and what os.path.exists(filepath) said.
PublishNamed(n, overwrite, ptitle, tables, bokeh_figs, plt_figs, files) ==
    IF n = None
    THEN [out |-> Raise("AttributeError"), fs |-> files,
          bokeh_figs |-> bokeh_figs, existed |-> FALSE]
    ELSE IF Len(extract_name(n[1])) = 0
    THEN [out |-> Raise("ValueError"), fs |-> files,
          bokeh_figs |-> bokeh_figs, existed |-> FALSE]
    ELSE IF Exists(files, AbsPath(extract_name(n[1]))) /\ ~overwrite
    THEN [out |-> Raise("OSError"), fs |-> files,
          bokeh_figs |-> bokeh_figs, existed |-> TRUE]
    ELSE PublishWrite(AbsPath(extract_name(n[1])), files,
                      html(ptitle, tables, bokeh_figs, plt_figs))

publish(name, overwrite, ptitle, tables, bokeh_figs, plt_figs, files) ==
    PublishNamed(NameOrTitle(name, ptitle), overwrite, ptitle, tables,
                 bokeh_figs, plt_figs, files)

\* An add_* call that raised after the index was drawn: `constructed` tells
\* whether the PageElement had been constructed by then.
AddRaised(op, err, constructed) ==
    /\ _index' = index
    /\ created' = IF constructed THEN Append(created, index) ELSE created
    /\ ret' = Result(op, [ix |-> index], Raise(err))
    /\ UNCHANGED <<title, _tables, _bokeh_figs, _plt_figs, fs, tableVars>>

\* add_table once the element is constructed, given the html to set (out).
AddTableWith(element, out) ==
    IF ~out.ok THEN AddRaised("add_table", out.err, TRUE)
    ELSE /\ _index' = index
         /\ created' = Append(created, index)
         /\ _tables' = Append(_tables, SetHtml(element, out.v))
         /\ ret' = Result("add_table", [ix |-> index], Ok(None))
         /\ UNCHANGED <<title, _bokeh_figs, _plt_figs, fs, tableVars>>

add_table(df, etitle, caption, int_convert, non_scientific, htmlarg, format_fcn) ==
    /\ _index < MaxIndex
    /\ IF df = "None"
       THEN AddRaised("add_table", "AttributeError", FALSE)
       ELSE AddTableWith(
                PageElement(index, etitle, caption,
                            [kind |-> "df", valid |-> TRUE], None, format_fcn).v,
                IF htmlarg = None
                THEN df_to_html(df, int_convert, non_scientific)
                ELSE Ok(htmlarg[1]))

\* add_table_from_fields given what fields.df_pretty did (pretty).
AddTableFromFieldsWith(etitle, caption, pretty) ==
    IF ~pretty.ok THEN AddRaised("add_table_from_fields", pretty.err, FALSE)
    ELSE /\ _index' = index
         /\ created' = Append(created, index)
         /\ _tables' = Append(_tables,
                PageElement(index, etitle, caption,
                            [kind |-> "df_pretty", valid |-> TRUE], None, None).v)
         /\ ret' = Result("add_table_from_fields", [ix |-> index], Ok(None))
         /\ UNCHANGED <<title, _bokeh_figs, _plt_figs, fs, tableVars>>

\* `fields` is a TableFieldArray just constructed from (table_fields, data).
add_table_from_fields(fields, etitle, caption) ==
    /\ _index < MaxIndex
    /\ AddTableFromFieldsWith(etitle, caption,
                              BuildDfPretty(fields.table_fields, fields.data))

add_bokeh_figure(fig, etitle, caption) ==
    /\ _index < MaxIndex
    /\ _index' = index
    /\ created' = Append(created, index)
    /\ _bokeh_figs' = Append(_bokeh_figs,
                             PageElement(index, etitle, caption, fig, None, None).v)
    /\ ret' = Result("add_bokeh_figure", [ix |-> index], Ok(None))
    /\ UNCHANGED <<title, _tables, _plt_figs, fs, tableVars>>

\* add_plt once the element is constructed, given the html to set (out).
AddPltWith(element, out) ==
    IF ~out.ok THEN AddRaised("add_plt", out.err, TRUE)
    ELSE /\ _index' = index
         /\ created' = Append(created, index)
         /\ _plt_figs' = Append(_plt_figs, SetHtml(element, out.v))
         /\ ret' = Result("add_plt", [ix |-> index], Ok(None))
         /\ UNCHANGED <<title, _tables, _bokeh_figs, fs, tableVars>>

\* axes: None, a Figure, an Axes, or an object that has neither `number` nor
\* get_figure (the call raises before an index is drawn).
add_plt(axes, etitle, caption, kwargs) ==
    /\ _index < MaxIndex
    /\ IF axes = "object"
       THEN /\ ret' = Result("add_plt", [ix |-> 0], Raise("AttributeError"))
            /\ UNCHANGED <<pageVars, tableVars>>
       ELSE AddPltWith(PageElement(index, etitle, caption, NoObject, None, None).v,
                       plt_to_html(axes, kwargs))

ReadPagecontent ==
    /\ ret' = Result("pagecontent", <<>>,
                     Ok(pagecontent(_tables, _bokeh_figs, _plt_figs)))
    /\ UNCHANGED <<pageVars, tableVars>>

ReadHtmlAs(h) ==
    /\ _bokeh_figs' = h.bokeh_figs
    /\ ret' = Result("html", <<>>, h.out)
    /\ UNCHANGED <<title, _tables, _plt_figs, _index, created, fs, tableVars>>

ReadHtml == ReadHtmlAs(html(title, _tables, _bokeh_figs, _plt_figs))

PublishAs(name, overwrite, p) ==
    /\ fs' = p.fs
    /\ _bokeh_figs' = p.bokeh_figs
    /\ ret' = Result("publish",
                     [name |-> name, overwrite |-> overwrite,
                      existed |-> p.existed], p.out)
    /\ UNCHANGED <<title, _tables, _plt_figs, _index, created, tableVars>>

Publish(name, overwrite) ==
    PublishAs(name, overwrite,
              publish(name, overwrite, title, _tables, _bokeh_figs, _plt_figs, fs))

\* The inputs of the page operations.
DfArgs == {"DataFrame", "list", "None"}

HtmlArgs == {None, Some("<table custom>")}

FieldsArgs ==
    { [table_fields |-> <<FieldX>>, data |-> d] :
        d \in {None} \cup {Some(rows) : rows \in SeqsUpTo(RowPool, 1)} }

FigArgs == {[kind |-> "fig", valid |-> v] : v \in BOOLEAN}

AxesArgs == {"None", "Figure", "Axes", "object"}

KwArgs == {"ok", "bad"}

PublishNames ==
    {None, Some(<<>>), Some(<<"!">>), Some(<<"a", " ">>), Some(<<"a", "\t">>)}

\* A file that some other program left in the working directory.
ForeignFile ==
    [path |-> AbsPath(<<"a">>),
     content |-> Some(PageOf(Some(<<"o", "l", "d">>), <<>>, <<>>))]

\* No table is under construction.
TableIdle ==
    /\ _table_fields = <<>>
    /\ _data = None
    /\ _table_dict = None
    /\ _table_html = None
    /\ _df_pretty = None
    /\ readSince = FALSE

\* CompositePage(title) for a title among `titles`, in a working directory
\* whose files are one of `dirs`.
InitPageIn(titles, dirs) ==
    /\ TableIdle
    /\ title \in titles
    /\ _tables = <<>>
    /\ _bokeh_figs = <<>>
    /\ _plt_figs = <<>>
    /\ _index = 0
    /\ created = <<>>
    /\ fs \in dirs
    /\ ret = InitRet

\* An untitled page in an empty working directory.
InitPage == InitPageIn({None}, {{}})

\* A page, titled or not, in a working directory that may hold a file.
InitPublish == InitPageIn({None, Some(<<"a">>)}, {{}, {ForeignFile}})

NextPage ==
    \/ \E df \in DfArgs, h \in HtmlArgs :
          add_table(df, None, None, TRUE, TRUE, h, None)
    \/ \E fields \in FieldsArgs : add_table_from_fields(fields, None, None)
    \/ \E fig \in FigArgs : add_bokeh_figure(fig, None, None)
    \/ \E axes \in AxesArgs, kw \in KwArgs : add_plt(axes, None, None, kw)
    \/ ReadPagecontent
    \/ ReadHtml

\* A page that is built and read, in an empty working directory.
SpecPage == InitPage /\ [][NextPage]_vars

\* A page of at most MaxPublished elements that is built and published.
NextPublish ==
    \/ /\ _index < MaxPublished
       /\ \E df \in DfArgs, h \in HtmlArgs :
             add_table(df, None, None, TRUE, TRUE, h, None)
    \/ /\ _index < MaxPublished
       /\ \E fields \in FieldsArgs : add_table_from_fields(fields, None, None)
    \/ /\ _index < MaxPublished
       /\ \E fig \in FigArgs : add_bokeh_figure(fig, None, None)
    \/ /\ _index < MaxPublished
       /\ \E axes \in AxesArgs, kw \in KwArgs : add_plt(axes, None, None, kw)
    \/ ReadHtml
    \/ \E name \in PublishNames, overwrite \in BOOLEAN : Publish(name, overwrite)

SpecPublish == InitPublish /\ [][NextPublish]_vars

-----------------------------------------------------------------------------
(* Calls that touch no object: the constructors and the static methods.    *)

NewTableField(name) ==
    /\ ret' = Result("TableField", [name |-> name],
                     TableField(name, TRUE, TRUE, NoFcn, None, NoAttrFcn))
    /\ UNCHANGED <<tableVars, pageVars>>

NewPageElement(name) ==
    /\ ret' = Result("PageElement", [name |-> name],
                     PageElement(1, None, None, NoObject, name, None))
    /\ UNCHANGED <<tableVars, pageVars>>

CallExtractName(name) ==
    /\ ret' = Result("extract_name", [name |-> name], Ok(extract_name(name)))
    /\ UNCHANGED <<tableVars, pageVars>>

CallFormatInt(val, none_to_zero) ==
    /\ ret' = Result("format_int", [val |-> val, none_to_zero |-> none_to_zero],
                     format_int(val, none_to_zero))
    /\ UNCHANGED <<tableVars, pageVars>>

\* format_factory(format_type, field_name, ...)(row)
CallFormatter(format_type, field_name, none_to_zero, precision, row) ==
    /\ ret' = Result("format_factory",
                     [format_type |-> format_type, val |-> row[field_name],
                      none_to_zero |-> none_to_zero, precision |-> precision],
                     CallFcn(format_factory(format_type, field_name,
                                            none_to_zero, precision), row))
    /\ UNCHANGED <<tableVars, pageVars>>

CellValues == {PyNone, PyFloat(10), PyFloat(25), PyStr}

InitCalls ==
    /\ TableIdle
    /\ PageIdle
    /\ ret = InitRet

NextCalls ==
    \/ \E name \in Names : NewTableField(name)
    \/ \E name \in {None} \cup {Some(n) : n \in Names} : NewPageElement(name)
    \/ \E name \in Names : CallExtractName(name)
    \/ \E val \in CellValues, ntz \in BOOLEAN : CallFormatInt(val, ntz)
    \/ \E ft \in {"int", "euro", "percent"}, field \in DataColumns,
          ntz \in BOOLEAN, precision \in 0..1, row \in RowPool :
          CallFormatter(ft, field, ntz, precision, row)

SpecCalls == InitCalls /\ [][NextCalls]_vars

-----------------------------------------------------------------------------
(* What the projection of descriptors over a dataset is, stated by position *)
(* (the j-th visible descriptor, the i-th source row).                     *)

VisibleIdx(fields) == {i \in 1..Len(fields) : fields[i].visible}

NVisible(fields) == Cardinality(VisibleIdx(fields))

\* The j-th visible descriptor, in declaration order.
NthVisible(fields, j) ==
    fields[CHOOSE i \in VisibleIdx(fields) :
              Cardinality({k \in VisibleIdx(fields) : k <= i}) = j]

NRows(data) == IF data = None THEN 0 ELSE Len(data[1])

\* The i-th source row as the functions see it: its data columns.
SourceRow(fields, data, i) ==
    [c \in {fields[k].name : k \in {n \in 1..Len(fields) : fields[n].is_data}}
        |-> data[1][i][c]]

CellValue(fields, data, i, j) ==
    CallFcn(function(NthVisible(fields, j)), SourceRow(fields, data, i))

CellAttrs(fields, data, i, j) ==
    CallAttrFcn(attributes_fcn(NthVisible(fields, j)), SourceRow(fields, data, i))

CellFails(fields, data, i, j) ==
    ~CellValue(fields, data, i, j).ok \/ ~CellAttrs(fields, data, i, j).ok

\* The cells where a function fails, and the first of them in row-major order.
FailingCells(fields, data) ==
    {c \in (1..NRows(data)) \X (1..NVisible(fields)) :
        CellFails(fields, data, c[1], c[2])}

FirstFailingCell(fields, data) ==
    CHOOSE c \in FailingCells(fields, data) :
        \A d \in FailingCells(fields, data) :
            c[1] < d[1] \/ (c[1] = d[1] /\ c[2] <= d[2])

\* The error of a failing cell: the value function is called first.
CellError(fields, data, c) ==
    IF ~CellValue(fields, data, c[1], c[2]).ok
    THEN CellValue(fields, data, c[1], c[2]).err
    ELSE CellAttrs(fields, data, c[1], c[2]).err

ExpectedHeader(fields) ==
    [j \in 1..NVisible(fields) |-> header(NthVisible(fields, j))]

ExpectedPair(fields, data, i) ==
    <<[j \in 1..NVisible(fields) |-> CellValue(fields, data, i, j).v],
      [j \in 1..NVisible(fields) |-> CellAttrs(fields, data, i, j).v]>>

ExpectedTable(fields, data) ==
    [thead |-> [v |-> ExpectedHeader(fields)],
     tbody |-> [i \in 1..NRows(data) |->
                  [v |-> ExpectedPair(fields, data, i)[1],
                   a |-> ExpectedPair(fields, data, i)[2]]]]

-----------------------------------------------------------------------------
(* Claims about TableFieldArray (SpecTable).                               *)

\* C1: every read of table_dict that returns gives the head/body structure
\* of the current descriptors projected over the current dataset, also right
\* after a reassignment of either; and a read that follows an earlier read
\* with no reassignment in between returns the memoized structure itself,
\* without computing it again.
C1_TableDictReflectsInputs ==
    ret.op = "table_dict" =>
        /\ ret.ok => ret.val = ExpectedTable(_table_fields, _data)
        /\ ret.args.repeat =>
              /\ ret.ok
              /\ ~ret.args.recomputed
              /\ _table_dict = Some(ret.val)

\* C1 witness: a repeated read that returned a two-row table, while the
\* rendering cached before the last reassignment still has no body.
C1_Witness ==
    /\ ret.op = "table_dict"
    /\ ret.ok
    /\ ret.args.repeat
    /\ Len(ret.val.tbody) = 2
    /\ Len(ret.val.thead.v) >= 1
    /\ _table_html # None
    /\ _table_html[1].tbody = None

\* C2: the value table_html returns is the rendering of the value table_dict
\* returns at that same moment.
C2_HtmlRendersCurrentDict ==
    (ret.op = "table_html" /\ ret.ok) =>
        /\ table_dict(_table_dict, _table_fields, _data).out.ok
        /\ TPL_TABLE_render(
              table_dict(_table_dict, _table_fields, _data).out.v.thead.v,
              table_dict(_table_dict, _table_fields, _data).out.v.tbody)
           = Ok(ret.val)

\* The <tr> rows of the <tbody> of a rendered table.
BodyRows(rendered) == IF rendered.tbody = None THEN <<>> ELSE rendered.tbody[1]

\* C3: for a dataset of n rows and descriptors of which m are visible (and
\* whose functions do not fail), table_html renders: n body rows of m cells,
\* cell j of row i showing the j-th visible descriptor's formatted value for
\* row i with the attribute mapping its attribute function returned, and a
\* <thead> iff the header list is non-empty.
C3_HtmlRendersTable ==
    (/\ ret.op = "table_html"
     /\ ~ret.args.cached
     /\ FailingCells(_table_fields, _data) = {}) =>
        /\ ret.ok
        /\ Len(BodyRows(ret.val)) = NRows(_data)
        /\ \A i \in 1..NRows(_data) :
              /\ Len(BodyRows(ret.val)[i]) = NVisible(_table_fields)
              /\ \A j \in 1..NVisible(_table_fields) :
                    /\ BodyRows(ret.val)[i][j].text
                          = CellValue(_table_fields, _data, i, j).v.s
                    /\ BodyRows(ret.val)[i][j].attrs
                          = CellAttrs(_table_fields, _data, i, j).v
        /\ (ret.val.thead # None) <=> (NVisible(_table_fields) > 0)
        /\ ret.val.thead # None => ret.val.thead[1] = ExpectedHeader(_table_fields)

\* C4: get_output_header has one entry per visible descriptor, in declaration
\* order; every pair iter_formatted_rows yields has a value list and an
\* attribute list of that length, position j holding what the j-th visible
\* descriptor's functions give for that row; the i-th pair is for the i-th
\* source row, and an iteration that runs to its end yields one pair per row.
C4_VisibleColumnsPerRow ==
    /\ ret.op = "get_output_header" =>
          /\ Len(ret.val) = NVisible(_table_fields)
          /\ ret.val = ExpectedHeader(_table_fields)
    /\ ret.op = "iter_formatted_rows" =>
          /\ Len(ret.val) <= NRows(_data)
          /\ ret.ok => Len(ret.val) = NRows(_data)
          /\ \A i \in 1..Len(ret.val) :
                /\ Len(ret.val[i][1]) = NVisible(_table_fields)
                /\ Len(ret.val[i][2]) = NVisible(_table_fields)
                /\ ret.val[i] = ExpectedPair(_table_fields, _data, i)

\* C4 witness: two different rows were formatted through a descriptor list
\* that has a hidden descriptor before a visible one.
C4_Witness ==
    /\ ret.op = "iter_formatted_rows"
    /\ ret.ok
    /\ Len(ret.val) = 2
    /\ ret.val[1] # ret.val[2]
    /\ Len(_table_fields) = 2
    /\ ~_table_fields[1].visible
    /\ _table_fields[2].visible

\* C5: when a value or attribute function fails on some row, the read of
\* table_dict raises that error and stores nothing in the cache, and the row
\* iteration raises it after yielding exactly the rows before the failing
\* one; when no function fails (the failing input replaced or never there),
\* the read returns the complete table of the current inputs.
C5_FailFast ==
    /\ ret.op = "table_dict" =>
          IF FailingCells(_table_fields, _data) # {}
          THEN /\ ~ret.ok
               /\ ret.err = CellError(_table_fields, _data,
                                      FirstFailingCell(_table_fields, _data))
               /\ ret.args.recomputed
               /\ _table_dict = None
          ELSE /\ ret.ok
               /\ Len(ret.val.tbody) = NRows(_data)
               /\ ret.val = ExpectedTable(_table_fields, _data)
    /\ ret.op = "iter_formatted_rows" =>
          IF FailingCells(_table_fields, _data) # {}
          THEN /\ ~ret.ok
               /\ ret.err = CellError(_table_fields, _data,
                                      FirstFailingCell(_table_fields, _data))
               /\ Len(ret.val) = FirstFailingCell(_table_fields, _data)[1] - 1
          ELSE ret.ok

\* C5 witness: a read of table_dict raised on the second of two rows, the
\* first of which formats, on inputs that replaced earlier ones (the cached
\* rendering is of a table without body).
C5_Witness ==
    /\ ret.op = "table_dict"
    /\ ~ret.ok
    /\ NRows(_data) = 2
    /\ FirstFailingCell(_table_fields, _data)[1] = 2
    /\ _table_dict = None
    /\ _table_html # None

-----------------------------------------------------------------------------
(* Claims about the formatters and the constructors (SpecCalls).           *)

\* What the integer formatter is to do with an absent value.
AbsentFormatted ==
    IF ret.args.none_to_zero
    THEN ret.ok /\ ret.val = IntVal("0")
    ELSE ~ret.ok

\* C6: the integer formatter applied to an absent (None) value, directly or
\* through the closure format_factory('int', ...) returns, gives 0 when
\* none_to_zero is true and fails when it is false; it never returns a
\* non-numeric string for an absent value.
C6_FormatIntOfNone ==
    /\ (ret.op = "format_int" /\ ret.args.val = PyNone) =>
          /\ AbsentFormatted
          /\ ret.ok => ret.val.ty = "int"
    /\ (/\ ret.op = "format_factory"
        /\ ret.args.format_type = "int"
        /\ ret.args.val = PyNone) =>
          /\ AbsentFormatted
          /\ ret.ok => ret.val.ty = "int"

\* Every character of the name is in [0-9A-Za-z_].
ValidName(name) == \A i \in 1..Len(name) : IsNameChar(name[i])

\* C9: whenever a name is supplied, construction of a column descriptor and
\* of a page element succeeds iff every character of the name is in
\* [0-9A-Za-z_], and otherwise fails with the invalid-name error (a
\* ValueError).
C9_NameValidation ==
    /\ ret.op = "TableField" =>
          /\ ret.ok <=> ValidName(ret.args.name)
          /\ ~ret.ok => ret.err = "ValueError"
    /\ (ret.op = "PageElement" /\ ret.args.name # None) =>
          /\ ret.ok <=> ValidName(ret.args.name[1])
          /\ ~ret.ok => ret.err = "ValueError"

-----------------------------------------------------------------------------
(* Claims about CompositePage (SpecPage, SpecPublish).                     *)

\* The elements in the three buckets.
Elements == _tables \o _bokeh_figs \o _plt_figs

\* The position in `created` of the element with order index ix.
CreatedAt(ix) == CHOOSE k \in 1..Len(created) : created[k] = ix

\* C7: whatever add_table, add_table_from_fields, add_bokeh_figure and
\* add_plt calls were made, failed ones included: every element was created
\* with an order index strictly greater than that of every element created
\* before it, no two elements of the buckets share an index, and pagecontent
\* lists exactly the elements of the three buckets, in creation order.
C7_PagecontentInCreationOrder ==
    /\ \A i, j \in 1..Len(created) : i < j => created[i] < created[j]
    /\ \A i \in 1..Len(Elements) :
          /\ \E k \in 1..Len(created) : created[k] = Elements[i].ix
          /\ \A j \in 1..Len(Elements) :
                i # j => Elements[i].ix # Elements[j].ix
    /\ Len(pagecontent(_tables, _bokeh_figs, _plt_figs)) = Len(Elements)
    /\ \A i \in 1..Len(Elements) :
          \E k \in 1..Len(Elements) :
              pagecontent(_tables, _bokeh_figs, _plt_figs)[k] = Elements[i]
    /\ \A i, j \in 1..Len(Elements) :
          i < j =>
              CreatedAt(pagecontent(_tables, _bokeh_figs, _plt_figs)[i].ix)
              < CreatedAt(pagecontent(_tables, _bokeh_figs, _plt_figs)[j].ix)
    /\ ret.op = "pagecontent" =>
          /\ ret.ok
          /\ ret.val = pagecontent(_tables, _bokeh_figs, _plt_figs)

\* C7 witness: pagecontent was read on a page whose first element is a plot
\* and whose last is a table, an add_table call in between having failed
\* after its element was created.
C7_Witness ==
    /\ ret.op = "pagecontent"
    /\ created = <<1, 2, 3>>
    /\ Len(_plt_figs) = 1
    /\ Len(_tables) = 1
    /\ _plt_figs[1].ix = 1
    /\ _tables[1].ix = 3
    /\ ret.val = <<_plt_figs[1], _tables[1]>>

\* The name publish makes the output name from: the name argument, or the
\* page title when the argument is None or empty.
Requested(name) == IF name = None \/ name[1] = <<>> THEN title ELSE name

\* A publish step whose output name is not empty, and the path it is for.
PublishStep ==
    /\ ret'.op = "publish"
    /\ Requested(ret'.args.name) # None
    /\ extract_name(Requested(ret'.args.name)[1]) # <<>>

Target == AbsPath(extract_name(Requested(ret'.args.name)[1]))

\* publish refused: it raised and no file changed.
Refused == ~ret'.ok /\ fs' = fs

\* publish wrote: it returned the path, whose file now holds the page; the
\* other files are as they were.
Wrote(page) ==
    /\ ret'.ok
    /\ ret'.val = Target
    /\ Exists(fs', Target)
    /\ Content(fs', Target) = Some(page)
    /\ {f \in fs' : f.path # Target} = {f \in fs : f.path # Target}

IsWhitespace(c) == c \in {" ", "\t", "\n", "\r"}

\* The sanitized name: whitespace mapped to an underscore, then the
\* characters outside [0-9A-Za-z-_.] removed.
Sanitized(name) ==
    SelectSeq([i \in 1..Len(name) |->
                  IF IsWhitespace(name[i]) THEN "_" ELSE name[i]],
              IsFileNameChar)

\* C10: publish maps every whitespace character of the requested name to an
\* underscore, removes every remaining character outside [0-9A-Za-z-_.] and
\* keeps the others in order: a publish that returns, returns the path of
\* that name; and when the result is empty, or there is neither a name nor
\* a page title, publish fails with the invalid-output-name error (a
\* ValueError) and no file changes.
C10_OutputNameSanitized ==
    [][ret'.op = "publish" =>
          IF \/ Requested(ret'.args.name) = None
             \/ Sanitized(Requested(ret'.args.name)[1]) = <<>>
          THEN /\ ~ret'.ok
               /\ ret'.err = "ValueError"
               /\ fs' = fs
          ELSE ret'.ok =>
                  ret'.val = AbsPath(Sanitized(Requested(ret'.args.name)[1]))
      ]_vars

\* C11: whenever the page's html is composed, every element of pagecontent
\* has its content fragment set (not None) when it is rendered, whichever
\* operation created it: no section of the page shows a missing fragment.
C11_EveryFragmentSet ==
    (ret.op = "html" /\ ret.ok) =>
        /\ \A i \in 1..Len(pagecontent(_tables, _bokeh_figs, _plt_figs)) :
              pagecontent(_tables, _bokeh_figs, _plt_figs)[i]._html # None
        /\ \A i \in 1..Len(ret.val.body) : ret.val.body[i].object # "None"

\* C12: a publish that fails, for whatever reason (the name, an existing
\* file without overwrite, a failure while rendering the page), leaves the
\* files as they were before the call: none created, none truncated or
\* modified.
C12_PublishAllOrNothing ==
    [][(ret'.op = "publish" /\ ~ret'.ok) => fs' = fs]_vars

=============================================================================
